---- MODULE Spec2Model ----
(***************************************************************************)
(* Model of scripts/prepare_db_snapshots.py: the snapshot archive writer   *)
(* (optimize_and_dump), the archive reader / restorer (restore_latest) and *)
(* the command-line entry point (main), over a small file system holding   *)
(* the source databases, their .sql.gz archives and the .vacuuming         *)
(* temporary files.                                                        *)
(*                                                                         *)
(* Text is a sequence of one-character strings.  Every call into the       *)
(* environment (sqlite3, the sqlite3 subprocess, the file system, the      *)
(* clock) either returns or raises; which, is chosen with \E.              *)
(***************************************************************************)
EXTENDS Integers, Sequences, FiniteSets, TLC

\* ---------------------------------------------------------------- bounds
\* Appends (whole or cut short) an archive has had before the invocation
\* that the behaviour follows.
MaxRecords == 1
\* Longest archive content the reader specification reads.
MaxLen == 3
\* Longest line of a .env file, and the most lines it has.
MaxLineLen == 3
MaxEnvLines == 2

\* ------------------------------------------------------------- text (str)
LF == "\n"
CR == "\r"
\* The characters str.strip() removes that occur in the model's alphabet.
Whitespace == {" ", LF, CR}

\* The digits of str(n) / json.dumps(n) for a non-negative integer.
Digit == <<"0", "1", "2", "3", "4", "5", "6", "7", "8", "9">>
RECURSIVE Str(_)
Str(n) == IF n < 10 THEN <<Digit[n + 1]>>
          ELSE Str(n \div 10) \o <<Digit[(n % 10) + 1]>>

\* Index of the first LF of s, 0 when there is none.
FirstLF(s) ==
    IF \E i \in 1..Len(s) : s[i] = LF
    THEN CHOOSE i \in 1..Len(s) : s[i] = LF /\ \A j \in 1..(i - 1) : s[j] # LF
    ELSE 0

\* content.split('\n'): k separators give k + 1 pieces, empty ones kept.
RECURSIVE Split(_)
Split(s) ==
    LET i == FirstLF(s)
    IN  IF i = 0 THEN <<s>>
        ELSE <<SubSeq(s, 1, i - 1)>> \o Split(SubSeq(s, i + 1, Len(s)))

\* '\n'.join(lines)
RECURSIVE Join(_)
Join(lines) ==
    IF Len(lines) = 0 THEN <<>>
    ELSE IF Len(lines) = 1 THEN lines[1]
    ELSE lines[1] \o <<LF>> \o Join(Tail(lines))

\* line.strip(): leading and trailing whitespace removed.
RECURSIVE LStrip(_)
LStrip(s) == IF Len(s) > 0 /\ s[1] \in Whitespace THEN LStrip(Tail(s)) ELSE s
RECURSIVE RStrip(_)
RStrip(s) == IF Len(s) > 0 /\ s[Len(s)] \in Whitespace
             THEN RStrip(SubSeq(s, 1, Len(s) - 1)) ELSE s
Strip(s) == RStrip(LStrip(s))

\* s.startswith(c) for a one-character prefix c.
StartsWith(s, c) == Len(s) > 0 /\ s[1] = c

\* Text mode ('rt', newline=None) reading: "\r\n" and a lone "\r" become "\n".
\* The translation is local, so the text is translated by halves.
RECURSIVE UniversalNewlines(_)
UniversalNewlines(s) ==
    IF Len(s) = 0 THEN <<>>
    ELSE IF Len(s) = 1 THEN (IF s[1] = CR THEN <<LF>> ELSE s)
    ELSE LET m == Len(s) \div 2
             l == SubSeq(s, 1, m)
             r == SubSeq(s, m + 1, Len(s))
         IN  UniversalNewlines(l)
             \o (IF l[m] = CR /\ r[1] = LF
                 THEN UniversalNewlines(Tail(r))
                 ELSE UniversalNewlines(r))

IsPrefix(s, t) == Len(s) <= Len(t) /\ SubSeq(t, 1, Len(s)) = s

RECURSIVE Concat(_)
Concat(ss) == IF Len(ss) = 0 THEN <<>> ELSE ss[1] \o Concat(Tail(ss))

\* ------------------------------------------------- configuration and paths
\* DB_FILES = ["database.db", "database2.db"]
DB_FILES == <<"database.db", "database2.db">>
DbNames == {DB_FILES[i] : i \in 1..Len(DB_FILES)}

\* db_path.with_suffix(".sql.gz"): the archive of each configured database.
DumpPath == [q \in DbNames |->
                IF q = "database.db" THEN "database.sql.gz" ELSE "database2.sql.gz"]
ArchiveNames == {DumpPath[q] : q \in DbNames}

\* str(ROOT / name), the "source" of a record, as characters.  ROOT is the
\* repository directory; one representative absolute path stands for it.
ROOT == <<"/", "r">>
PathChars == [q \in DbNames |->
                 IF q = "database.db"
                 THEN ROOT \o <<"/", "d", "b">>
                 ELSE ROOT \o <<"/", "d", "b", "2">>]

\* ------------------------------------------------------------ the framing
\* A JSON string literal: quotes, with quote, backslash and newline escaped.
RECURSIVE JsonEscape(_)
JsonEscape(s) ==
    IF Len(s) = 0 THEN <<>>
    ELSE (IF s[1] = "\"" THEN <<"\\", "\"">>
          ELSE IF s[1] = "\\" THEN <<"\\", "\\">>
          ELSE IF s[1] = LF THEN <<"\\", "n">>
          ELSE <<s[1]>>) \o JsonEscape(Tail(s))
JsonString(s) == <<"\"">> \o JsonEscape(s) \o <<"\"">>

KeyTimestamp == <<"t", "i", "m", "e", "s", "t", "a", "m", "p">>
KeySource == <<"s", "o", "u", "r", "c", "e">>
KeySize == <<"s", "i", "z", "e", "_", "b", "e", "f", "o", "r", "e", "_",
             "o", "p", "t", "i", "m", "i", "z", "a", "t", "i", "o", "n">>

\* json.dumps(metadata, separators=(',', ':')) + '\n'
metadata_line(metadata) ==
    <<"{">> \o JsonString(KeyTimestamp) \o <<":">> \o Str(metadata.timestamp)
    \o <<",">> \o JsonString(KeySource) \o <<":">> \o JsonString(metadata.source)
    \o <<",">> \o JsonString(KeySize) \o <<":">>
    \o Str(metadata.size_before_optimization) \o <<"}">> \o <<LF>>

\* combined_bytes = metadata_bytes + dump_bytes + b'\n\n'
Terminator == <<LF, LF>>
combined(metadata, dump) == metadata_line(metadata) \o dump \o Terminator

\* ------------------------------------------------------------- the reader
\* A reader that takes any line holding a "{" for a metadata line.
json_line_indices_anywhere(lines) ==
    {i \in 1..Len(lines) : \E k \in 1..Len(lines[i]) : lines[i][k] = "{"}

\* The indices i with lines[i].strip().startswith('{'), in increasing order
\* (1-based here, 0-based in the source).
json_line_indices(lines) ==
    {i \in 1..Len(lines) : StartsWith(Strip(lines[i]), "{")}

Max(S) == CHOOSE x \in S : \A y \in S : y <= x

\* The dump text restore_latest selects from the decoded content.
SelectDump(content) ==
    LET lines == Split(content)
        idx   == json_line_indices(lines)
    IN  IF idx # {}
        THEN Join(SubSeq(lines, Max(idx) + 1, Len(lines)))
        ELSE content

\* ------------------------------------------------------------------ state
VARIABLES
    db,             \* the source database files: [exists, size, slack]
    temp,           \* whether <name>.vacuuming exists, per database
    archive,        \* the .sql.gz files: [exists, members]; a member is one
                    \* gzip member, [plain, whole] (whole: written to its end)
    clock,          \* time.time(), in whole seconds
    pc,             \* position of the running invocation
    argv,           \* sys.argv of the running invocation
    loop_idx,       \* main: index into DB_FILES of the file being processed
    produced,       \* main: the paths optimize_and_dump returned
    con,            \* optimize_and_dump: the sqlite3 connection
    dump_bytes,     \* optimize_and_dump: output of the dump subprocess
    orig,           \* optimize_and_dump: db_path.stat().st_size
    combined_bytes, \* optimize_and_dump: the framed record
    content,        \* restore_latest: the decoded archive text
    sql_dump,       \* restore_latest: the dump text selected for replay
    replay,         \* restore_latest: how far executescript got
    exit_code,      \* what main returned (-1 while it is running)
    output,         \* the lines printed so far by this invocation
    size_at_entry,  \* size of the file when optimize_and_dump was entered
    failed,         \* the compaction steps that raised in this file's cycle,
                    \* kept until the dump step has run
    attempted,      \* the files main has called optimize_and_dump on, with results
    archive0,       \* the archives as they were when this invocation started
    wfile,          \* overlapping writers: the archive file, as the pieces
                    \* written to it in the order they reached the file
    wpc,            \* overlapping writers: position of each writer
    wrote,          \* overlapping writers: pieces each writer has written
    started,        \* overlapping writers: the writers in the order they opened
    overlapped,     \* overlapping writers: a writer opened while another wrote
    environ,        \* load_env_file: os.environ
    environ0,       \* load_env_file: os.environ as it was on entry
    env_file,       \* load_env_file: the .env file, [exists, lines]
    line_idx,       \* load_env_file: lines of the file read so far
    epc             \* load_env_file: position

fsvars == <<db, temp, archive>>
locals == <<con, dump_bytes, orig, combined_bytes, size_at_entry, failed>>
rlocals == <<content, sql_dump, replay>>
wvars == <<wfile, wpc, wrote, started, overlapped>>
evars == <<environ, environ0, env_file, line_idx, epc>>
svars == <<db, temp, archive, clock, pc, argv, loop_idx, produced, con,
           dump_bytes, orig, combined_bytes, content, sql_dump, replay,
           exit_code, output, size_at_entry, failed, attempted, archive0>>
vars == <<svars, wvars, evars>>

\* The dump texts the sqlite3 subprocess (or a legacy archive) may hold: a
\* plain one, and one with a line that starts with "{" inside a statement.
PlainBody == <<"a", ";", LF>>
BraceBody == <<"a", LF, "{", ";", LF>>
Bodies == {PlainBody, BraceBody}

Absent == [exists |-> FALSE, size |-> 0, slack |-> 0]
\* A database file with reclaimable space, and one without.
Fragmented == [exists |-> TRUE, size |-> 2, slack |-> 1]
Compacted == [exists |-> TRUE, size |-> 1, slack |-> 0]
DbStates == {Absent, Fragmented, Compacted}

\* The command lines tried.
Prog == "prepare_db_snapshots.py"
Argvs ==
    {<<Prog>>, <<Prog, "-h">>, <<Prog, "--help">>,
     <<Prog, "--restore", "database.sql.gz">>}
    \cup {<<Prog, "--restore", g, "database.db">> : g \in ArchiveNames}

NoArchive == [exists |-> FALSE, members |-> <<>>]
LegacyArchive(body) ==
    [exists |-> TRUE, members |-> <<[plain |-> body, whole |-> TRUE]>>]

\* metadata = {"timestamp": int(time.time()), "source": str(db_path),
\*             "size_before_optimization": orig}
Metadata(t, path, size) ==
    [timestamp |-> t, source |-> PathChars[path], size_before_optimization |-> size]

\* A write with the file opened in mode "wb" instead: what the file held is lost.
GzipTruncateWrite(a, bytes) ==
    [exists |-> TRUE, members |-> <<[plain |-> bytes, whole |-> TRUE]>>]

\* A file opened in mode "ab" and written to its end: one more gzip member
\* after what the file held.
GzipAppend(a, bytes) ==
    [exists |-> TRUE, members |-> Append(a.members, [plain |-> bytes, whole |-> TRUE])]

\* The same write cut short by an error after n bytes of plaintext.
GzipAppendCut(a, bytes, n) ==
    [exists |-> TRUE,
     members |-> Append(a.members, [plain |-> SubSeq(bytes, 1, n), whole |-> FALSE])]

\* The archives earlier invocations can have left: nothing or a legacy dump,
\* followed by at most MaxRecords appends of the writer, each a whole framed
\* record or one cut short by a failed write.
RECURSIVE Histories(_, _)
Histories(path, n) ==
    IF n = 0
    THEN {NoArchive, LegacyArchive(PlainBody)}
    ELSE LET prev == Histories(path, n - 1)
         IN  prev
             \cup {GzipAppend(a, combined(Metadata(0, path, Fragmented.size), b)) :
                      a \in prev, b \in Bodies}
             \cup {GzipAppendCut(a, combined(Metadata(0, path, Fragmented.size), PlainBody), 1) :
                      a \in prev}

\* The archive of the first configured database carries the history; the
\* other one is absent or a legacy dump.
InitArchives ==
    {[g \in ArchiveNames |-> IF g = DumpPath[DB_FILES[1]] THEN h ELSE l] :
        h \in Histories(DB_FILES[1], MaxRecords), l \in Histories(DB_FILES[2], 0)}

\* No second process writes to an archive.
NoWriters ==
    /\ wfile = <<>>
    /\ wpc = <<>>
    /\ wrote = <<>>
    /\ started = <<>>
    /\ overlapped = FALSE

\* config.py is not imported by the snapshot script: load_env_file never runs.
NoEnvLoad ==
    /\ environ = <<>>
    /\ environ0 = <<>>
    /\ env_file = [exists |-> FALSE, lines |-> <<>>]
    /\ line_idx = 0
    /\ epc = "none"

\* The state in which one invocation of the entry point starts: any mix of
\* absent, fragmented and compacted databases, no temporary file left over,
\* and the archives earlier invocations have left.
Init ==
    /\ db \in [DbNames -> DbStates]
    /\ temp = [q \in DbNames |-> FALSE]
    /\ archive \in InitArchives
    /\ clock = 0
    /\ pc = "idle"
    /\ argv = <<Prog>>
    /\ loop_idx = 0
    /\ produced = <<>>
    /\ con = "none"
    /\ dump_bytes = <<>>
    /\ orig = 0
    /\ combined_bytes = <<>>
    /\ content = <<>>
    /\ sql_dump = <<>>
    /\ replay = "none"
    /\ exit_code = -1
    /\ output = <<>>
    /\ size_at_entry = 0
    /\ failed = {}
    /\ attempted = <<>>
    /\ archive0 = archive
    /\ NoWriters
    /\ NoEnvLoad

\* ------------------------------------------------------------------- main
\* The process is started with command line a.
Invoke(a) ==
    /\ pc = "idle"
    /\ argv' = a
    /\ pc' = "main"
    /\ loop_idx' = 0
    /\ produced' = <<>>
    /\ con' = "none"
    /\ dump_bytes' = <<>>
    /\ orig' = 0
    /\ combined_bytes' = <<>>
    /\ content' = <<>>
    /\ sql_dump' = <<>>
    /\ replay' = "none"
    /\ exit_code' = -1
    /\ output' = <<>>
    /\ size_at_entry' = 0
    /\ failed' = {}
    /\ attempted' = <<>>
    /\ archive0' = archive
    /\ UNCHANGED <<db, temp, archive, clock>>
    /\ UNCHANGED <<wvars, evars>>

\* The test that sends an invocation to restore_latest.
IsRestore(a) == Len(a) > 1 /\ a[2] = "--restore" /\ Len(a) = 4
IsHelp(a) == Len(a) > 1 /\ a[2] \in {"-h", "--help"}

\* main, up to the choice of a direction.
Dispatch ==
    /\ pc = "main"
    /\ IF IsRestore(argv)
       THEN /\ pc' = "r_exists"
            /\ UNCHANGED <<exit_code, output, loop_idx>>
       ELSE IF IsHelp(argv)
       THEN /\ output' = output \o <<"usage">>
            /\ exit_code' = 0
            /\ pc' = "exit"
            /\ UNCHANGED loop_idx
       ELSE /\ loop_idx' = 1
            /\ pc' = "loop"
            /\ UNCHANGED <<exit_code, output>>
    /\ UNCHANGED <<fsvars, clock, argv, produced, locals, rlocals,
                   attempted, archive0>>
    /\ UNCHANGED <<wvars, evars>>

\* for name in DB_FILES: p = ROOT / name; out = optimize_and_dump(p)
Loop ==
    /\ pc = "loop"
    /\ IF loop_idx <= Len(DB_FILES)
       THEN /\ pc' = "exists"
            /\ attempted' = Append(attempted, [file |-> DB_FILES[loop_idx], result |-> "running"])
       ELSE /\ pc' = "summary"
            /\ UNCHANGED attempted
    /\ con' = "none"
    /\ dump_bytes' = <<>>
    /\ orig' = 0
    /\ combined_bytes' = <<>>
    /\ size_at_entry' = 0
    /\ failed' = {}
    /\ UNCHANGED <<fsvars, clock, argv, loop_idx, produced, rlocals,
                   exit_code, output, archive0>>
    /\ UNCHANGED <<wvars, evars>>

\* A summary that treats "nothing produced" as an error.
SummaryFailsWhenEmpty ==
    /\ pc = "summary"
    /\ output' = output \o (IF produced = <<>> THEN <<"No databases found to snapshot.">>
                            ELSE <<"Successfully created/updated", "Raw DB files retained">>)
    /\ exit_code' = IF produced = <<>> THEN 1 ELSE 0
    /\ pc' = "exit"
    /\ UNCHANGED <<fsvars, clock, argv, loop_idx, produced, locals,
                   rlocals, attempted, archive0>>
    /\ UNCHANGED <<wvars, evars>>

\* if not produced: ... return 0 ; else ... return 0
Summary ==
    /\ pc = "summary"
    /\ output' = output \o (IF produced = <<>> THEN <<"No databases found to snapshot.">>
                            ELSE <<"Successfully created/updated", "Raw DB files retained">>)
    /\ exit_code' = 0
    /\ pc' = "exit"
    /\ UNCHANGED <<fsvars, clock, argv, loop_idx, produced, locals,
                   rlocals, attempted, archive0>>
    /\ UNCHANGED <<wvars, evars>>

\* ------------------------------------------------------ optimize_and_dump
\* The file the running call of optimize_and_dump is about.
db_path == DB_FILES[loop_idx]

Mark(result) == [attempted EXCEPT ![Len(attempted)].result = result]

\* A loop that stops at the first file whose cycle fails.
ReturnStopsOnFailure(result, printed) ==
    /\ produced' = IF result = "none" THEN produced ELSE Append(produced, result)
    /\ attempted' = Mark(IF result = "none" THEN printed ELSE "ok")
    /\ output' = IF printed = "missing" THEN output ELSE Append(output, printed)
    /\ loop_idx' = loop_idx + 1
    /\ pc' = IF result = "none" /\ printed # "missing" THEN "summary" ELSE "loop"

\* optimize_and_dump returns result to main: if out: produced.append(out)
Return(result, printed) ==
    /\ produced' = IF result = "none" THEN produced ELSE Append(produced, result)
    /\ attempted' = Mark(IF result = "none" THEN printed ELSE "ok")
    /\ output' = IF printed = "missing" THEN output ELSE Append(output, printed)
    /\ loop_idx' = loop_idx + 1
    /\ pc' = "loop"

\* No catch-all handler: the exception leaves optimize_and_dump and main, and
\* the process ends with a traceback, main having returned nothing.
UnexpectedEscapes ==
    /\ produced' = produced
    /\ attempted' = Mark("raised")
    /\ output' = Append(output, "Traceback")
    /\ loop_idx' = loop_idx
    /\ pc' = "exit"

\* except Exception as e: print("Unexpected error processing ..."); return None
Unexpected == Return("none", "Unexpected error processing")

\* if not db_path.exists(): return None
CheckExists ==
    /\ pc = "exists"
    /\ IF db[db_path].exists
       THEN /\ pc' = "connect"
            /\ size_at_entry' = db[db_path].size
            /\ UNCHANGED <<produced, attempted, output, loop_idx>>
       ELSE /\ Return("none", "missing")
            /\ UNCHANGED size_at_entry
    /\ UNCHANGED <<fsvars, clock, argv, con, dump_bytes, orig,
                   combined_bytes, failed, rlocals, exit_code, archive0>>
    /\ UNCHANGED <<wvars, evars>>

\* con = sqlite3.connect(str(db_path)); cur = con.cursor(); prune_db(db_path)
Connect ==
    /\ pc = "connect"
    /\ \E ok \in BOOLEAN :
          IF ok
          THEN /\ con' = "open"
               /\ pc' = "pragma"
               /\ UNCHANGED <<produced, attempted, output, loop_idx>>
          ELSE /\ Unexpected
               /\ UNCHANGED con
    /\ UNCHANGED <<fsvars, clock, argv, dump_bytes, orig, combined_bytes,
                   size_at_entry, failed, rlocals, exit_code, archive0>>
    /\ UNCHANGED <<wvars, evars>>

\* try: cur.execute("PRAGMA optimize;") except Exception: pass
Pragma ==
    /\ pc = "pragma"
    /\ \E ok \in BOOLEAN : failed' = IF ok THEN failed ELSE failed \cup {"pragma"}
    /\ pc' = "commit"
    /\ UNCHANGED <<fsvars, clock, argv, loop_idx, produced, con,
                   dump_bytes, orig, combined_bytes, size_at_entry, rlocals,
                   exit_code, output, attempted, archive0>>
    /\ UNCHANGED <<wvars, evars>>

\* con.commit(), outside the inner try blocks
Commit ==
    /\ pc = "commit"
    /\ \E ok \in BOOLEAN :
          IF ok
          THEN /\ pc' = "vacuum_into"
               /\ UNCHANGED <<produced, attempted, output, loop_idx>>
          ELSE Unexpected
    /\ UNCHANGED <<fsvars, clock, argv, con, dump_bytes, orig,
                   combined_bytes, size_at_entry, failed, rlocals, exit_code,
                   archive0>>
    /\ UNCHANGED <<wvars, evars>>

\* What VACUUM (INTO a copy, or in place) makes of a database file.
Vacuumed(d) == [d EXCEPT !.size = d.size - d.slack, !.slack = 0]

\* temp_file = db_path.with_suffix(".vacuuming"); cur.execute("VACUUM INTO ...")
\* SQLite refuses to VACUUM INTO a file that already exists.
VacuumInto ==
    /\ pc = "vacuum_into"
    /\ \E ok \in BOOLEAN :
          IF ok /\ ~temp[db_path]
          THEN /\ temp' = [temp EXCEPT ![db_path] = TRUE]
               /\ pc' = "close1"
               /\ UNCHANGED failed
          ELSE /\ failed' = failed \cup {"vacuum_into"}
               /\ pc' = "fallback"
               /\ UNCHANGED temp
    /\ UNCHANGED <<db, archive, clock, argv, loop_idx, produced, con,
                   dump_bytes, orig, combined_bytes, size_at_entry, rlocals,
                   exit_code, output, attempted, archive0>>
    /\ UNCHANGED <<wvars, evars>>

\* con.close(), after VACUUM INTO
CloseAfterVacuumInto ==
    /\ pc = "close1"
    /\ con' = "closed"
    /\ pc' = "replace"
    /\ UNCHANGED <<fsvars, clock, argv, loop_idx, produced, dump_bytes,
                   orig, combined_bytes, size_at_entry, failed, rlocals,
                   exit_code, output, attempted, archive0>>
    /\ UNCHANGED <<wvars, evars>>

\* The replace outside the inner try: its failure ends the file's cycle.
ReplaceOutsideTry ==
    /\ pc = "replace"
    /\ \E ok \in BOOLEAN :
          IF ok
          THEN /\ db' = [db EXCEPT ![db_path] = Vacuumed(db[db_path])]
               /\ temp' = [temp EXCEPT ![db_path] = FALSE]
               /\ pc' = "reconnect"
               /\ UNCHANGED <<failed, produced, attempted, output, loop_idx>>
          ELSE /\ failed' = failed \cup {"replace"}
               /\ Unexpected
               /\ UNCHANGED <<db, temp>>
    /\ UNCHANGED <<archive, clock, argv, con, dump_bytes, orig, combined_bytes,
                   size_at_entry, rlocals, exit_code, archive0>>
    /\ UNCHANGED <<wvars, evars>>

\* temp_file.replace(db_path)
Replace ==
    /\ pc = "replace"
    /\ \E ok \in BOOLEAN :
          IF ok
          THEN /\ db' = [db EXCEPT ![db_path] = Vacuumed(db[db_path])]
               /\ temp' = [temp EXCEPT ![db_path] = FALSE]
               /\ pc' = "reconnect"
               /\ UNCHANGED failed
          ELSE /\ failed' = failed \cup {"replace"}
               /\ pc' = "fallback"
               /\ UNCHANGED <<db, temp>>
    /\ UNCHANGED <<archive, clock, argv, loop_idx, produced, con,
                   dump_bytes, orig, combined_bytes, size_at_entry, rlocals,
                   exit_code, output, attempted, archive0>>
    /\ UNCHANGED <<wvars, evars>>

\* con = sqlite3.connect(str(db_path)); cur = con.cursor()
Reconnect ==
    /\ pc = "reconnect"
    /\ \E ok \in BOOLEAN :
          IF ok
          THEN /\ con' = "open"
               /\ pc' = "close2"
               /\ UNCHANGED failed
          ELSE /\ failed' = failed \cup {"reconnect"}
               /\ pc' = "fallback"
               /\ UNCHANGED con
    /\ UNCHANGED <<fsvars, clock, argv, loop_idx, produced, dump_bytes,
                   orig, combined_bytes, size_at_entry, rlocals, exit_code,
                   output, attempted, archive0>>
    /\ UNCHANGED <<wvars, evars>>

\* except Exception: try: cur.execute("VACUUM;"); con.commit() except: pass
\* cur belongs to the connection VACUUM INTO ran on; once that connection is
\* closed, cur.execute raises.
FallbackVacuum ==
    /\ pc = "fallback"
    /\ \E ok \in BOOLEAN :
          IF ok /\ con = "open"
          THEN /\ db' = [db EXCEPT ![db_path] = Vacuumed(db[db_path])]
               /\ UNCHANGED failed
          ELSE /\ failed' = failed \cup {"vacuum"}
               /\ UNCHANGED db
    /\ pc' = "close2"
    /\ UNCHANGED <<temp, archive, clock, argv, loop_idx, produced, con,
                   dump_bytes, orig, combined_bytes, size_at_entry, rlocals,
                   exit_code, output, attempted, archive0>>
    /\ UNCHANGED <<wvars, evars>>

\* con.close(), the end of the compaction step
CloseAfterCompaction ==
    /\ pc = "close2"
    /\ con' = "closed"
    /\ pc' = "dump"
    /\ UNCHANGED <<fsvars, clock, argv, loop_idx, produced, dump_bytes,
                   orig, combined_bytes, size_at_entry, failed, rlocals,
                   exit_code, output, attempted, archive0>>
    /\ UNCHANGED <<wvars, evars>>

\* dump_bytes = subprocess.check_output(["sqlite3", str(db_path), ".dump"])
\* A non-zero exit raises CalledProcessError; a missing binary raises OSError.
Dump ==
    /\ pc = "dump"
    /\ \/ \E body \in Bodies :
             /\ dump_bytes' = body
             /\ pc' = "frame"
             /\ UNCHANGED <<produced, attempted, output, loop_idx>>
       \/ /\ Return("none", "Error dumping")
          /\ UNCHANGED dump_bytes
       \/ /\ Unexpected
          /\ UNCHANGED dump_bytes
    /\ failed' = {}
    /\ UNCHANGED <<fsvars, clock, argv, con, orig, combined_bytes,
                   size_at_entry, rlocals, exit_code, archive0>>
    /\ UNCHANGED <<wvars, evars>>

\* orig = db_path.stat().st_size, then the framing of the record
Frame ==
    /\ pc = "frame"
    /\ orig' = db[db_path].size
    /\ \E t \in {clock, clock + 1} :
          /\ clock' = t
          /\ combined_bytes' = combined(Metadata(t, db_path, orig'), dump_bytes)
    /\ pc' = "write"
    /\ UNCHANGED <<fsvars, argv, loop_idx, produced, con, dump_bytes,
                   size_at_entry, failed, rlocals, exit_code, output,
                   attempted, archive0>>
    /\ UNCHANGED <<wvars, evars>>

\* with gzip.GzipFile(filename=str(dump_path), mode="ab", ...) as gz:
\*     gz.write(combined_bytes)
\* (the TypeError fallback writes the same bytes the same way)
Write ==
    /\ pc = "write"
    /\ \/ /\ archive' = [archive EXCEPT ![DumpPath[db_path]] =
                            GzipAppend(archive[DumpPath[db_path]], combined_bytes)]
          /\ pc' = "report"
          /\ UNCHANGED <<produced, attempted, output, loop_idx>>
       \/ /\ UNCHANGED archive
          /\ Unexpected
       \/ /\ archive' = [archive EXCEPT ![DumpPath[db_path]] =
                            GzipAppendCut(archive[DumpPath[db_path]], combined_bytes, 1)]
          /\ Unexpected
    /\ UNCHANGED <<db, temp, clock, argv, con, dump_bytes, orig,
                   combined_bytes, size_at_entry, failed, rlocals, exit_code,
                   archive0>>
    /\ UNCHANGED <<wvars, evars>>

\* comp = dump_path.stat().st_size; print(f"{action} ..."); return dump_path
Report ==
    /\ pc = "report"
    /\ Return(DumpPath[db_path], "Created/Updated")
    /\ UNCHANGED <<fsvars, clock, argv, locals, rlocals, exit_code, archive0>>
    /\ UNCHANGED <<wvars, evars>>

\* ---------------------------------------------------------- restore_latest
gz_path == argv[3]
target_path == argv[4]

\* main: success = restore_latest(gz_path, db_path); return 0 if success else 1
RestoreReturns(success, printed) ==
    /\ output' = Append(output, printed)
    /\ exit_code' = IF success THEN 0 ELSE 1
    /\ pc' = "exit"

\* A handler that reports the error and still returns True.
RestoreFailsSilently == RestoreReturns(TRUE, "Error restoring")

\* except Exception as e: print("Error restoring ..."); return False
RestoreFails == RestoreReturns(FALSE, "Error restoring")

\* if not gz_path.exists(): print("Error: ... not found"); return False
RestoreExists ==
    /\ pc = "r_exists"
    /\ IF archive[gz_path].exists
       THEN /\ pc' = "r_read"
            /\ UNCHANGED <<output, exit_code>>
       ELSE RestoreReturns(FALSE, "not found")
    /\ UNCHANGED <<fsvars, clock, argv, loop_idx, produced, locals,
                   rlocals, attempted, archive0>>
    /\ UNCHANGED <<wvars, evars>>

\* The plaintext of every member, in file order.
Plain(a) == Concat([k \in 1..Len(a.members) |-> a.members[k].plain])
\* A stream gzip reads to its end without error: every member is whole.
ValidStream(a) == \A k \in 1..Len(a.members) : a.members[k].whole

\* with gzip.open(gz_path, 'rt') as f: content = f.read()
\* Raises when the file cannot be opened or is not a valid gzip stream.
RestoreRead ==
    /\ pc = "r_read"
    /\ \E readable \in BOOLEAN :
          IF readable /\ ValidStream(archive[gz_path])
          THEN /\ content' = UniversalNewlines(Plain(archive[gz_path]))
               /\ pc' = "r_select"
               /\ UNCHANGED <<output, exit_code>>
          ELSE /\ RestoreFails
               /\ UNCHANGED content
    /\ UNCHANGED <<fsvars, clock, argv, loop_idx, produced, locals,
                   sql_dump, replay, attempted, archive0>>
    /\ UNCHANGED <<wvars, evars>>

\* lines = content.split('\n') ... sql_dump = '\n'.join(sql_lines) | content
RestoreSelect ==
    /\ pc = "r_select"
    /\ sql_dump' = SelectDump(content)
    /\ pc' = "r_exec"
    /\ UNCHANGED <<fsvars, clock, argv, loop_idx, produced, locals,
                   content, replay, exit_code, output, attempted, archive0>>
    /\ UNCHANGED <<wvars, evars>>

\* con = sqlite3.connect(str(db_path)); con.executescript(sql_dump); con.close()
\* connect creates the target when it is missing; executescript either runs
\* the whole script or raises part-way, keeping what it had applied.
RestoreExec ==
    /\ pc = "r_exec"
    /\ \/ /\ RestoreFails
          /\ UNCHANGED <<db, replay>>
       \/ /\ \E d \in DbStates \ {Absent} :
                db' = [db EXCEPT ![target_path] = d]
          /\ \/ /\ replay' = "partial"
                /\ RestoreFails
             \/ /\ replay' = "all"
                /\ RestoreReturns(TRUE, "Restored")
    /\ UNCHANGED <<temp, archive, clock, argv, loop_idx, produced,
                   locals, content, sql_dump, attempted, archive0>>
    /\ UNCHANGED <<wvars, evars>>

\* ---------------------------------------------------------- specification
Next ==
    \/ \E a \in Argvs : Invoke(a)
    \/ Dispatch
    \/ Loop
    \/ Summary
    \/ CheckExists
    \/ Connect
    \/ Pragma
    \/ Commit
    \/ VacuumInto
    \/ CloseAfterVacuumInto
    \/ Replace
    \/ Reconnect
    \/ FallbackVacuum
    \/ CloseAfterCompaction
    \/ Dump
    \/ Frame
    \/ Write
    \/ Report
    \/ RestoreExists
    \/ RestoreRead
    \/ RestoreSelect
    \/ RestoreExec

Spec == Init /\ [][Next]_vars

\* Every blocking call returns or raises: a running invocation takes its
\* next step.  The archives start absent or as a legacy dump.
Running == pc \notin {"idle", "exit"}
Step == Running /\ Next
FairInit == Init /\ \A g \in ArchiveNames : archive[g] \in Histories(DB_FILES[1], 0)
FairSpec == FairInit /\ [][Next]_vars /\ WF_vars(Step)

\* ------------------------------------------- the reader on arbitrary files
\* restore_latest applied to an archive file holding any text of at most
\* MaxLen characters (a legacy dump, or a file from anywhere).
ReaderChars == {"a", "{", " ", LF, CR}
Texts == UNION {[1..n -> ReaderChars] : n \in 0..MaxLen}
RestoreArgv == <<Prog, "--restore", "database.sql.gz", "database.db">>

ReaderInit ==
    /\ db = [q \in DbNames |-> Absent]
    /\ temp = [q \in DbNames |-> FALSE]
    /\ \E t \in Texts :
          archive = [g \in ArchiveNames |->
                        IF g = "database.sql.gz" THEN LegacyArchive(t) ELSE NoArchive]
    /\ clock = 0
    /\ pc = "idle"
    /\ argv = <<Prog>>
    /\ loop_idx = 0
    /\ produced = <<>>
    /\ con = "none"
    /\ dump_bytes = <<>>
    /\ orig = 0
    /\ combined_bytes = <<>>
    /\ content = <<>>
    /\ sql_dump = <<>>
    /\ replay = "none"
    /\ exit_code = -1
    /\ output = <<>>
    /\ size_at_entry = 0
    /\ failed = {}
    /\ attempted = <<>>
    /\ archive0 = archive
    /\ NoWriters
    /\ NoEnvLoad

ReaderNext ==
    \/ Invoke(RestoreArgv)
    \/ Dispatch
    \/ RestoreExists
    \/ RestoreRead
    \/ RestoreSelect
    \/ RestoreExec

SpecReader == ReaderInit /\ [][ReaderNext]_vars

\* --------------------------------------------------- two overlapping writers
\* Two runs of optimize_and_dump on the same source database, in two
\* processes, each at its write of the record to the same archive file
\* (lines 94-101).  Nothing in the code takes a lock or checks for another
\* writer.  Writer w appends record w; the earlier runs appended record 0.
Writers == {1, 2}

\* gzip writes one member as a header, the compressed data and a trailer (CRC
\* and length).  For a record larger than the buffer of the file object they
\* reach the file in separate write calls, each appended at the end of the
\* file as it is at that moment (mode "ab").
Parts == <<"header", "data", "trailer">>
Pieces(r, n) == [i \in 1..n |-> [rec |-> r, part |-> Parts[i]]]
WholeMember(r) == Pieces(r, Len(Parts))

\* The archive file after n whole appends of earlier runs.
RECURSIVE Earlier(_)
Earlier(n) == IF n = 0 THEN <<>> ELSE Earlier(n - 1) \o WholeMember(0)

\* No invocation of the entry point is modelled step by step.
NoInvocation ==
    /\ db = [q \in DbNames |-> Compacted]
    /\ temp = [q \in DbNames |-> FALSE]
    /\ archive = [g \in ArchiveNames |-> NoArchive]
    /\ clock = 0
    /\ pc = "idle"
    /\ argv = <<Prog>>
    /\ loop_idx = 0
    /\ produced = <<>>
    /\ con = "none"
    /\ dump_bytes = <<>>
    /\ orig = 0
    /\ combined_bytes = <<>>
    /\ content = <<>>
    /\ sql_dump = <<>>
    /\ replay = "none"
    /\ exit_code = -1
    /\ output = <<>>
    /\ size_at_entry = 0
    /\ failed = {}
    /\ attempted = <<>>
    /\ archive0 = archive

WritersInit ==
    /\ NoInvocation
    /\ NoEnvLoad
    /\ \E n \in 0..MaxRecords : wfile = Earlier(n)
    /\ wpc = [w \in Writers |-> "ready"]
    /\ wrote = [w \in Writers |-> 0]
    /\ started = <<>>
    /\ overlapped = FALSE

\* The file opened in mode "wb" instead: what it held is lost.
WOpenTruncates(w) ==
    /\ wpc[w] = "ready"
    /\ wpc' = [wpc EXCEPT ![w] = "writing"]
    /\ started' = Append(started, w)
    /\ overlapped' = (overlapped \/ \E v \in Writers : wpc[v] = "writing")
    /\ wfile' = <<>>
    /\ UNCHANGED <<wrote, svars, evars>>

\* with gzip.GzipFile(filename=str(dump_path), mode="ab", ...) as gz:
\* the file is opened for appending whatever another process is doing to it.
WOpen(w) ==
    /\ wpc[w] = "ready"
    /\ wpc' = [wpc EXCEPT ![w] = "writing"]
    /\ started' = Append(started, w)
    /\ overlapped' = (overlapped \/ \E v \in Writers : wpc[v] = "writing")
    /\ UNCHANGED <<wfile, wrote, svars, evars>>

\* gz.write(combined_bytes) and the close at the end of the with block: the
\* next piece of the member reaches the end of the file.
WPiece(w) ==
    /\ wpc[w] = "writing"
    /\ wfile' = Append(wfile, [rec |-> w, part |-> Parts[wrote[w] + 1]])
    /\ wrote' = [wrote EXCEPT ![w] = @ + 1]
    /\ wpc' = [wpc EXCEPT ![w] = IF wrote'[w] = Len(Parts) THEN "closed"
                                                           ELSE "writing"]
    /\ UNCHANGED <<started, overlapped, svars, evars>>

\* except Exception as e: a write raises (disk full, I/O error); the pieces
\* already in the file stay there and optimize_and_dump returns None.
WFail(w) ==
    /\ wpc[w] = "writing"
    /\ wpc' = [wpc EXCEPT ![w] = "failed"]
    /\ UNCHANGED <<wfile, wrote, started, overlapped, svars, evars>>

WritersNext ==
    \/ \E w \in Writers : WOpen(w)
    \/ \E w \in Writers : WPiece(w)
    \/ \E w \in Writers : WFail(w)

SpecWriters == WritersInit /\ [][WritersNext]_vars

\* --------------------------------------------------- config.load_env_file
\* load_env_file() of config.py, run once when the module is imported, on any
\* .env file of at most MaxEnvLines lines of at most MaxLineLen characters
\* and any initial process environment.
EnvChars == {"K", "v", "=", "#", " "}
EnvLines == UNION {[1..n -> EnvChars] : n \in 0..MaxLineLen}
EnvFiles ==
    {[exists |-> FALSE, lines |-> <<>>]}
        \cup {[exists |-> TRUE, lines |-> ls] :
                 ls \in UNION {[1..n -> EnvLines] : n \in 0..MaxEnvLines}}

\* os.environ: a function from the names that are set to their values.  The
\* process starts with K unset, set to the empty string or set to "w".
Environs == {<<>>} \cup {[k \in {<<"K">>} |-> val] : val \in {<<>>, <<"w">>}}

\* os.getenv(key): the value, or None (here <<"None">>, which is no value of
\* one-character strings' text) when key is not set.
None == <<"None">>
getenv(e, key) == IF key \in DOMAIN e THEN e[key] ELSE None

\* Python's truth value of what os.getenv returned: None and '' are false.
Truthy(x) == x # None /\ x # <<>>

\* os.environ[key] = value
setenv(e, key, value) ==
    [k \in DOMAIN e \cup {key} |-> IF k = key THEN value ELSE e[k]]

\* Index of the first "=" of s, 0 when there is none ('=' in line).
FirstEq(s) ==
    IF \E i \in 1..Len(s) : s[i] = "="
    THEN CHOOSE i \in 1..Len(s) : s[i] = "=" /\ \A j \in 1..(i - 1) : s[j] # "="
    ELSE 0

\* The body of "for line in f": the environment after one line of the file.
LoadLine(e, raw) ==
    LET line == Strip(raw)
        i == FirstEq(line)
        key == Strip(SubSeq(line, 1, i - 1))
        value == Strip(SubSeq(line, i + 1, Len(line)))
    IN  IF line = <<>> \/ StartsWith(line, "#") THEN e
        ELSE IF i = 0 THEN e
        ELSE IF key # <<>> /\ ~Truthy(getenv(e, key)) THEN setenv(e, key, value)
        ELSE e

EnvInit ==
    /\ NoInvocation
    /\ NoWriters
    /\ environ \in Environs
    /\ environ0 = environ
    /\ env_file \in EnvFiles
    /\ line_idx = 0
    /\ epc = "exists"

\* if env_path.exists(): with open(env_path) as f:
EnvOpen ==
    /\ epc = "exists"
    /\ epc' = IF env_file.exists THEN "lines" ELSE "done"
    /\ UNCHANGED <<environ, environ0, env_file, line_idx, svars, wvars>>

\* for line in f: one more line of the file is read and handled.
EnvLine ==
    /\ epc = "lines"
    /\ line_idx < Len(env_file.lines)
    /\ line_idx' = line_idx + 1
    /\ environ' = LoadLine(environ, env_file.lines[line_idx'])
    /\ UNCHANGED <<environ0, env_file, epc, svars, wvars>>

\* The file is exhausted: load_env_file returns.
EnvReturn ==
    /\ epc = "lines"
    /\ line_idx = Len(env_file.lines)
    /\ epc' = "done"
    /\ UNCHANGED <<environ, environ0, env_file, line_idx, svars, wvars>>

EnvNext ==
    \/ EnvOpen
    \/ EnvLine
    \/ EnvReturn

SpecEnv == EnvInit /\ [][EnvNext]_vars

\* ----------------------------------------------------------------- claims
RestorePcs == {"r_exists", "r_read", "r_select", "r_exec"}
Last(seq) == seq[Len(seq)]

\* rec is one framed record around body: a line that starts with "{" and ends
\* with "}", then body, then the blank-line terminator.
IsFramedRecord(rec, body) ==
    LET n == FirstLF(rec)
    IN  /\ n > 1
        /\ rec[1] = "{"
        /\ rec[n - 1] = "}"
        /\ SubSeq(rec, n + 1, Len(rec)) = body \o <<LF, LF>>

AppendOnlyStep(g) ==
    LET old == archive[g]
        new == archive'[g]
    IN  /\ old.exists => new.exists
        /\ IsPrefix(old.members, new.members)
        /\ Len(new.members) <= Len(old.members) + 1
        /\ IsPrefix(Plain(old), Plain(new))
        /\ (Len(new.members) = Len(old.members) + 1 /\ Last(new.members).whole)
              => /\ Plain(new) = Plain(old) \o Last(new.members).plain
                 /\ Len(Plain(old)) < Len(Plain(new))
                 /\ IsFramedRecord(Last(new.members).plain, dump_bytes)
        /\ pc \in RestorePcs => new = old

\* C1: append-only archive.  Every step of every invocation leaves what each
\* archive held as a prefix of what it holds afterwards (members and
\* plaintext); a successful append adds exactly one framed record around the
\* dump just taken, strictly lengthening the plaintext; the steps of
\* restore_latest leave every archive as it was.
C1_AppendOnly == [][\A g \in ArchiveNames : AppendOnlyStep(g)]_vars

\* A record has just been appended to an archive that already held content.
C1_Witness ==
    /\ pc = "report"
    /\ Len(archive[DumpPath[db_path]].members) >= 2
    /\ ValidStream(archive[DumpPath[db_path]])

\* The invocation runs the snapshot Orchestrator by design: no --restore, no help.
SnapshotRun == ~IsRestore(argv) /\ ~IsHelp(argv)

\* The archive consists of whole framed records only, at least one.
FramedOnly(a) ==
    /\ Len(a.members) >= 1
    /\ \A k \in 1..Len(a.members) :
          /\ a.members[k].whole
          /\ \E b \in Bodies : IsFramedRecord(a.members[k].plain, b)

\* C2: latest-wins.  When the archive is a sequence of whole framed records,
\* the text restore_latest selects for replay is the dump body of the last
\* record (the blank-line terminator of the frame, which the reader leaves
\* on the text, is not counted as an addition).
C2_LatestWins ==
    (pc = "r_exec" /\ FramedOnly(archive[gz_path]))
        => \A b \in Bodies :
              IsFramedRecord(Last(archive[gz_path].members).plain, b)
                  => sql_dump \in {b, b \o Terminator}

\* No line of text has "{" as its first non-whitespace character.
NoHeaderLine(text) ==
    ~ \E i \in 1..Len(text) :
         /\ text[i] = "{"
         /\ \E j \in 1..i :
               /\ (j = 1 \/ text[j - 1] = LF)
               /\ \A k \in j..(i - 1) : text[k] \in Whitespace \ {LF}

\* C3: legacy compatibility.  Once restore_latest has selected the dump text,
\* if the decoded content has no line whose first non-whitespace character
\* is "{", the text selected for replay is the whole content, unchanged.
C3_LegacyWhole ==
    (pc = "r_exec" /\ NoHeaderLine(content)) => sql_dump = content

\* The reader has selected from header-free content that holds a "{" inside
\* a line and a line break.
C3_Witness ==
    /\ pc = "r_exec"
    /\ NoHeaderLine(content)
    /\ \E i \in 1..Len(content) : content[i] = "{"
    /\ \E i \in 1..Len(content) : content[i] = LF

\* The k-th attempted file's archive holds what it held when the invocation
\* started plus exactly one whole member.
OneRecordAppended(k) ==
    LET g == DumpPath[attempted[k].file]
    IN  /\ Len(archive[g].members) = Len(archive0[g].members) + 1
        /\ IsPrefix(archive0[g].members, archive[g].members)
        /\ Last(archive[g].members).whole

\* C4: failure isolation.  When the loop of a snapshot invocation is over,
\* every configured file has been attempted, in list order; a file's archive
\* has gained one whole record exactly when that file's cycle succeeded (and
\* then its path is among the produced ones); a file that was missing or
\* whose dump extraction failed has its archive exactly as it was.
C4_FailureIsolation ==
    (pc = "summary" \/ (pc = "exit" /\ SnapshotRun))
        => /\ Len(attempted) = Len(DB_FILES)
           /\ \A k \in 1..Len(attempted) :
                 /\ attempted[k].file = DB_FILES[k]
                 /\ (attempted[k].result = "ok") <=> OneRecordAppended(k)
                 /\ (attempted[k].result = "ok")
                       <=> (\E n \in 1..Len(produced) :
                               produced[n] = DumpPath[attempted[k].file])
                 /\ attempted[k].result \in {"missing", "Error dumping"}
                       => archive[DumpPath[attempted[k].file]]
                             = archive0[DumpPath[attempted[k].file]]

\* Two files, the first with an extraction failure, the second a success:
\* exactly one record appended, to the second file's archive.
C4_Witness ==
    /\ pc = "exit"
    /\ Len(attempted) = 2
    /\ attempted[1].result = "Error dumping"
    /\ attempted[2].result = "ok"
    /\ archive[DumpPath[DB_FILES[1]]] = archive0[DumpPath[DB_FILES[1]]]
    /\ OneRecordAppended(2)
    /\ Len(produced) = 1

NoneExists == \A q \in DbNames : ~db[q].exists

\* C5: missing-file tolerance.  In a snapshot invocation with no configured
\* database file present, no archive is created or changed at any point, and
\* the invocation ends having produced nothing, printed only "No databases
\* found to snapshot." and returned 0.
C5_MissingFiles ==
    (pc # "idle" /\ SnapshotRun /\ NoneExists)
        => /\ archive = archive0
           /\ produced = <<>>
           /\ pc = "exit" => /\ exit_code = 0
                             /\ output = <<"No databases found to snapshot.">>
                             /\ \A k \in 1..Len(attempted) : attempted[k].result = "missing"

C5_Witness ==
    /\ pc = "exit"
    /\ argv = <<Prog>>
    /\ NoneExists
    /\ Len(attempted) = Len(DB_FILES)
    /\ \E g \in ArchiveNames : ~archive[g].exists

\* C6: the outcome of a restore is never silent.  When "--restore <archive>
\* <target>" has ended, the exit code is 0 exactly when the archive exists,
\* is a valid compressed stream and the whole selected script was executed;
\* otherwise it is 1, and the last line printed names the failure.
C6_RestoreOutcome ==
    (pc = "exit" /\ IsRestore(argv))
        => /\ exit_code \in {0, 1}
           /\ (exit_code = 0)
                 <=> /\ archive[gz_path].exists
                     /\ ValidStream(archive[gz_path])
                     /\ replay = "all"
           /\ exit_code = 0 => Last(output) = "Restored"
           /\ exit_code = 1 => Last(output) \in {"Error restoring", "not found"}

\* The replay failed part-way and the invocation ended with exit code 1.
C6_Witness ==
    /\ pc = "exit"
    /\ IsRestore(argv)
    /\ replay = "partial"
    /\ exit_code = 1

AllAttempted ==
    /\ Len(attempted) = Len(DB_FILES)
    /\ \A k \in 1..Len(attempted) :
          attempted[k].file = DB_FILES[k] /\ attempted[k].result # "running"

\* C7: a snapshot invocation always completes.  Files are attempted one at a
\* time (a file is started only when the cycles of all earlier ones are
\* over), and once the loop has started the invocation reaches its end with
\* every configured file attempted in list order, a summary printed and
\* exit code 0.
C7_Completes ==
    /\ [](\A k \in 1..(Len(attempted) - 1) : attempted[k].result # "running")
    /\ (pc = "loop" /\ loop_idx = 1)
          ~> (pc = "exit" /\ exit_code = 0 /\ AllAttempted
              /\ Last(output) \in {"No databases found to snapshot.",
                                   "Raw DB files retained"})

\* An invocation ended with exit code 0 after both files failed, one with an
\* unexpected error and one in the dump extraction.
C7_Witness ==
    /\ pc = "exit"
    /\ exit_code = 0
    /\ Len(attempted) = 2
    /\ attempted[1].result = "Unexpected error processing"
    /\ attempted[2].result = "Error dumping"

\* C8: restore is separate from the snapshot loop.  An invocation whose first
\* argument is --restore never enters the Orchestrator: it attempts no file
\* and leaves the databases and the archives' contents alone.
C8_RestoreSeparate ==
    (pc # "idle" /\ Len(argv) > 1 /\ argv[2] = "--restore")
        => /\ pc \in RestorePcs \cup {"main", "exit"}
           /\ attempted = <<>>
           /\ archive = archive0

\* C9: size_before_optimization.  The record just appended carries, as
\* size_before_optimization, the size the database file had when
\* optimize_and_dump was entered, before any compaction step ran.
C9_SizeBeforeCompaction ==
    pc = "report"
        => Last(archive[DumpPath[db_path]].members).plain
              = combined(Metadata(clock, db_path, size_at_entry), dump_bytes)

ListedPcs == {"pragma", "vacuum_into", "replace", "reconnect", "fallback"}
CompactionPcs == ListedPcs \cup {"commit", "close1", "close2"}

CompactionStepStays ==
    pc \in ListedPcs
        => (pc' \in CompactionPcs \cup {"dump"}
            /\ attempted' = attempted /\ output' = output)

\* C10: compaction is never fatal.  None of the steps PRAGMA optimize, VACUUM
\* INTO, replace, reconnect and fallback VACUUM, failing or not, ends the
\* file's cycle or prints an error: control stays in the compaction step or
\* moves on to the dump; the hint, failing or not, is followed by the commit
\* that comes next, and from VACUUM INTO on the dump extraction step is
\* always reached.
C10_CompactionNeverFatal ==
    /\ [][CompactionStepStays]_vars
    /\ (pc = "pragma") ~> (pc = "commit")
    /\ (pc \in CompactionPcs \ {"pragma", "commit"}) ~> (pc = "dump")

\* The dump step is reached after the hint, the replace and the fallback
\* VACUUM have all failed.
C10_Witness ==
    /\ pc = "dump"
    /\ failed = {"pragma", "replace", "vacuum"}

\* C11: temporary compaction file cleanup.  On every exit path of the
\* compaction step the temporary file of the atomic compaction has been
\* renamed over the original database or removed: when control reaches the
\* dump extraction step, no temporary file of the database remains.
C11_TempFileGone ==
    pc = "dump" => ~temp[db_path]

\* The file is a concatenation of whole members.
AllWhole(f) ==
    /\ Len(f) % Len(Parts) = 0
    /\ \A i \in 1..Len(f) :
          /\ f[i].part = Parts[((i - 1) % Len(Parts)) + 1]
          /\ f[i].rec = f[i - ((i - 1) % Len(Parts))].rec

\* The file holds, after what earlier runs left, one member per writer that
\* has opened it, in the order they opened it, each member as far as its
\* writer got.
InWriteOrder ==
    \E n \in 0..MaxRecords :
       wfile = Earlier(n)
                  \o Concat([i \in 1..Len(started) |->
                                Pieces(started[i], wrote[started[i]])])

\* C12 as stated: with at most one append in progress at a time, the archive
\* is a concatenation of whole compressed members whenever no append is in
\* progress.
C12_SingleWriterWhole ==
    (~overlapped /\ \A w \in Writers : wpc[w] # "writing") => AllWhole(wfile)

\* C12: no writer coordination.  With at most one append in progress at a
\* time the archive is a concatenation of members, one per append in write
\* order, each whole unless its write is in progress or failed midway; and
\* nothing serializes two runs: while one writer is in the middle of its
\* member, a writer that has not started can open the archive.
C12_NoCoordination ==
    /\ ~overlapped => InWriteOrder
    /\ (~overlapped /\ \A w \in Writers : wpc[w] \in {"ready", "closed"})
          => AllWhole(wfile)
    /\ \A w, v \in Writers :
          (wpc[w] = "writing" /\ wpc[v] = "ready") => ENABLED WOpen(v)

\* Both writers wrote their member to its end without an error, and the
\* archive is not a concatenation of whole members: their pieces interleave.
C12_Witness ==
    /\ \A w \in Writers : wpc[w] = "closed"
    /\ ~AllWhole(wfile)

\* C13: environment takes precedence over the .env file.  At every point of
\* load_env_file, each variable that was set in the environment on entry is
\* still set and has the value it had; the file only adds variables.
C13_EnvironmentWins ==
    \A k \in DOMAIN environ0 : k \in DOMAIN environ /\ environ[k] = environ0[k]
====
